---- MODULE Spec2Model ----
(***************************************************************************)
(* Model of main() of the RabbitMQ pod autoscaler (src/main.go): the       *)
(* configuration loop over the environment, the set-up of the Kubernetes   *)
(* client and the AMQP channel, and the endless scaling loop               *)
(* (QueueInspect, GetScale, the replica arithmetic, UpdateScale, Sleep).   *)
(* The queue and the deployment are the environment: their state changes   *)
(* under the program's feet (QueueChange, ExternalScale).                  *)
(*                                                                         *)
(* Strings of the environment are sequences of one-character strings, so   *)
(* that strconv.ParseInt / ParseFloat are modelled by what they do.        *)
(* A float64 is a record [num, den] with den a power of ten; the inputs    *)
(* enumerated below are dyadic (0, 0.5, 1, 1.5), for which the float64     *)
(* product and math.Floor of the code are exact.                           *)
(***************************************************************************)
EXTENDS Integers, Sequences, FiniteSets, TLC

\* ------------------------------------------------------------------ bounds
MaxMessages == 3     \* queue depths the broker may report: 0..MaxMessages
MaxLive == 4         \* replica counts an external actor may set: 0..MaxLive
ReplicaCap == 12     \* UpdateScale is not followed beyond this replica count

\* ---------------------------------------------------- configKeys and Config
\* The fields of configKeys in declaration order, with their environment names.
FieldNames ==
  << "RabbitMQHost", "QueueName", "Namespace", "Deployment",
     "MaxPods", "MinPods", "MsgPerPod", "ScanInterval", "ScaleFactor" >>

configKeys ==
  [ RabbitMQHost |-> "AMQP_HOST",
    QueueName    |-> "AMQP_BUILD_QUEUE",
    Namespace    |-> "NAMESPACE",
    Deployment   |-> "DEPLOYMENT",
    MaxPods      |-> "MAX_PODS",
    MinPods      |-> "MIN_PODS",
    MsgPerPod    |-> "MSG_PER_POD",
    ScanInterval |-> "SCAN_INTERVAL",
    ScaleFactor  |-> "SCALE_FACTOR" ]

\* reflect.Kind of each field of Config.
Kind ==
  [ RabbitMQHost |-> "string",
    QueueName    |-> "string",
    Namespace    |-> "string",
    Deployment   |-> "string",
    MaxPods      |-> "int",
    MinPods      |-> "int",
    MsgPerPod    |-> "int",
    ScanInterval |-> "int",
    ScaleFactor  |-> "float64" ]

\* config := Config{} : the zero value.
ZeroConfig ==
  [ RabbitMQHost |-> << >>,
    QueueName    |-> << >>,
    Namespace    |-> << >>,
    Deployment   |-> << >>,
    MaxPods      |-> 0,
    MinPods      |-> 0,
    MsgPerPod    |-> 0,
    ScanInterval |-> 0,
    ScaleFactor  |-> [num |-> 0, den |-> 1] ]

\* ------------------------------------------------------------------ strconv
DigitChars == { "0", "1", "2", "3", "4", "5", "6", "7", "8", "9" }

DigitVal(c) ==
  CASE c = "0" -> 0 [] c = "1" -> 1 [] c = "2" -> 2 [] c = "3" -> 3
    [] c = "4" -> 4 [] c = "5" -> 5 [] c = "6" -> 6 [] c = "7" -> 7
    [] c = "8" -> 8 [] c = "9" -> 9

RECURSIVE ParseUint(_, _)
\* strconv.ParseUint(s, 10, 64) continued with the accumulator n:
\* every byte must be a decimal digit.
ParseUint(s, n) ==
  IF s = << >> THEN [ok |-> TRUE, val |-> n]
  ELSE IF Head(s) \notin DigitChars THEN [ok |-> FALSE, val |-> 0]
  ELSE ParseUint(Tail(s), n * 10 + DigitVal(Head(s)))

\* ParseInt with its error dropped: what does not parse counts as 0.
ParseInt_IgnoreErr(s) ==
  IF s = << >> THEN [ok |-> FALSE, val |-> 0]
  ELSE LET body == IF Head(s) \in {"+", "-"} THEN Tail(s) ELSE s
           u    == IF body = << >> THEN [ok |-> FALSE, val |-> 0]
                   ELSE ParseUint(body, 0)
       IN  [ok |-> TRUE,
            val |-> IF ~u.ok THEN 0
                    ELSE IF Head(s) = "-" THEN 0 - u.val ELSE u.val]

\* strconv.ParseInt(s, 10, 64): empty is a syntax error; one leading sign;
\* the rest is an unsigned decimal with at least one digit.
ParseInt(s) ==
  IF s = << >> THEN [ok |-> FALSE, val |-> 0]
  ELSE LET neg  == Head(s) = "-"
           body == IF Head(s) \in {"+", "-"} THEN Tail(s) ELSE s
           u    == IF body = << >> THEN [ok |-> FALSE, val |-> 0]
                   ELSE ParseUint(body, 0)
       IN  IF ~u.ok THEN u
           ELSE [ok |-> TRUE, val |-> IF neg THEN 0 - u.val ELSE u.val]

RECURSIVE ReadMantissa(_, _, _, _, _)
\* The decimal mantissa loop of strconv's readFloat: digits with at most one
\* '.', at least one digit in all.  num/den accumulate the value, sawdot and
\* sawdigits are the loop's flags.  Any other byte ends the number, and
\* ParseFloat then reports a syntax error because input is left over.
ReadMantissa(s, num, den, sawdot, sawdigits) ==
  IF s = << >>
    THEN [ok |-> sawdigits, val |-> [num |-> num, den |-> den]]
  ELSE IF Head(s) = "."
    THEN IF sawdot THEN [ok |-> FALSE, val |-> [num |-> 0, den |-> 1]]
         ELSE ReadMantissa(Tail(s), num, den, TRUE, sawdigits)
  ELSE IF Head(s) \in DigitChars
    THEN ReadMantissa(Tail(s), num * 10 + DigitVal(Head(s)),
                      IF sawdot THEN den * 10 ELSE den, sawdot, TRUE)
  ELSE [ok |-> FALSE, val |-> [num |-> 0, den |-> 1]]

\* strconv.ParseFloat(s, 64) on the alphabet of the enumerated inputs
\* (digits, sign, '.', and letters that start no special value).
ParseFloat(s) ==
  IF s = << >> THEN [ok |-> FALSE, val |-> [num |-> 0, den |-> 1]]
  ELSE LET neg  == Head(s) = "-"
           body == IF Head(s) \in {"+", "-"} THEN Tail(s) ELSE s
           m    == ReadMantissa(body, 0, 1, FALSE, FALSE)
       IN  IF ~m.ok THEN m
           ELSE [ok |-> TRUE,
                 val |-> [num |-> IF neg THEN 0 - m.val.num ELSE m.val.num,
                          den |-> m.val.den]]

\* --------------------------------------------------------- replica arithmetic
\* The quotient truncated as by integer division, not rounded up.
CeilDiv_Truncating(m, d) ==
  IF d > 0 THEN m \div d ELSE 0 - (m \div (0 - d))

\* int(math.Ceil(float64(m) / float64(d))) for d # 0 (the quotient of two
\* small integers is exact enough in float64 for Ceil to be the integer
\* ceiling).  d = 0 (an infinite or NaN quotient) is not among the inputs.
CeilDiv(m, d) ==
  IF d > 0
    THEN LET q == m \div d IN IF q * d = m THEN q ELSE q + 1
    ELSE 0 - (m \div (0 - d))

\* The clamps with the lower one missing.
Bounded_NoMinClamp(m, cfg) ==
  LET r0 == CeilDiv(m, cfg.MsgPerPod)
  IN  IF r0 > cfg.MaxPods THEN cfg.MaxPods ELSE r0

\* The clamps with the upper one assigning the wrong bound.
Bounded_WrapClamp(m, cfg) ==
  LET r0 == CeilDiv(m, cfg.MsgPerPod)
      r1 == IF r0 < cfg.MinPods THEN cfg.MinPods ELSE r0
  IN  IF r1 > cfg.MaxPods THEN cfg.MinPods ELSE r1

\* The desired replicas after the two clamps, before the scale-down step.
Bounded(m, cfg) ==
  LET r0 == CeilDiv(m, cfg.MsgPerPod)
      r1 == IF r0 < cfg.MinPods THEN cfg.MinPods ELSE r0
  IN  IF r1 > cfg.MaxPods THEN cfg.MaxPods ELSE r1

\* The factor taken as the share of the gap to remove, not to keep.
FloorScale_Complement(gap, sf) == (gap * (sf.den - sf.num)) \div sf.den

\* The damped gap rounded up, not down.
FloorScale_Ceil(gap, sf) ==
  LET q == (gap * sf.num) \div sf.den
  IN  IF q * sf.den = gap * sf.num THEN q ELSE q + 1

\* int(math.Floor(float64(gap) * ScaleFactor))
FloorScale(gap, sf) == (gap * sf.num) \div sf.den

\* The scale-down step applied whatever the direction.
Target_AlwaysDamped(m, cur, cfg) ==
  LET b == Bounded(m, cfg)
  IN  FloorScale(cur - b, cfg.ScaleFactor) + b

\* The scale-down step left out.
Target_NoDamping(m, cur, cfg) == Bounded(m, cfg)

\* The damped gap added to the current replicas, not to the clamped value.
Target_AddToCurrent(m, cur, cfg) ==
  LET b == Bounded(m, cfg)
  IN  IF b < cur THEN FloorScale(cur - b, cfg.ScaleFactor) + cur ELSE b

\* The value of `replicas` when the loop reaches the comparison with
\* currentReplicas.
Target(m, cur, cfg) ==
  LET b == Bounded(m, cfg)
  IN  IF b < cur THEN FloorScale(cur - b, cfg.ScaleFactor) + b ELSE b

\* ---------------------------------------------------------------------- state
VARIABLES
  env,              \* the process environment: variable name -> string
  debug,            \* os.Getenv("DEBUG") == "true"
  pc,               \* position of main()
  i,                \* index of the configuration loop (1-based)
  config,           \* the Config struct
  connOpen,         \* the AMQP connection and channel are open
  queueMessages,    \* the broker's message count of the queue
  liveReplicas,     \* the deployment's spec.replicas in the cluster
  messageCount,     \* local of the iteration: queue.Messages
  currentReplicas,  \* local of the iteration: the scale read by GetScale
  replicas,         \* local of the iteration: the desired replicas
  calls,            \* collaborator calls issued in this iteration
  out,              \* lines printed in this iteration
  fatal,            \* the panic that ended the process, or "none"
  interfered,       \* the cluster's replicas changed externally since GetScale
  prev              \* <<messageCount, currentReplicas>> of the previous
                    \* iteration if it issued no UpdateScale, else << >>

vars == << env, debug, pc, i, config, connOpen, queueMessages, liveReplicas,
           messageCount, currentReplicas, replicas, calls, out, fatal,
           interfered, prev >>

LoopPcs == { "inspect", "getscale", "decide", "update", "sleep" }

\* ------------------------------------------------------------------- inputs
NameVals == { << >>, << "q" >> }

SmallEnvs ==
  [ AMQP_HOST        : NameVals,
    AMQP_BUILD_QUEUE : { << "q" >> },
    NAMESPACE        : { << "q" >> },
    DEPLOYMENT       : NameVals,
    MAX_PODS         : { << >>, << "1" >>, << "2" >> },
    MIN_PODS         : { << "x" >>, << "0" >>, << "1" >>, << "2" >> },
    MSG_PER_POD      : { << "2" >>, << "1", ".", "5" >> },
    SCAN_INTERVAL    : { << "1" >>, << "-" >> },
    SCALE_FACTOR     : { << "0" >>, << "0", ".", "5" >>, << "1" >>,
                         << "1", ".", "5" >>, << "1", ".", ".", "5" >> } ]

InitWith(envs, msgs, lives) ==
  /\ env \in envs
  /\ debug \in BOOLEAN
  /\ pc = "config"
  /\ i = 1
  /\ config = ZeroConfig
  /\ connOpen = FALSE
  /\ queueMessages \in msgs
  /\ liveReplicas \in lives
  /\ messageCount = 0
  /\ currentReplicas = 0
  /\ replicas = 0
  /\ calls = << >>
  /\ out = << >>
  /\ fatal = "none"
  /\ interfered = FALSE
  /\ prev = << >>

Init == InitWith(SmallEnvs, 0 .. MaxMessages, 0 .. MaxLive)

\* ------------------------------------------------------------------ actions
\* The error reported without ending the process.
Panic_LogOnly(msg) ==
  /\ pc' = pc
  /\ fatal' = msg

\* panic(fmt.Errorf(...)) in main: the process ends.
Panic(msg) ==
  /\ pc' = "panicked"
  /\ fatal' = msg

\* One iteration of the configuration loop: field i of configKeys.
LoadConfigField ==
  /\ pc = "config"
  /\ LET fieldName == FieldNames[i]
         value     == env[configKeys[fieldName]]
         kind      == Kind[fieldName]
         int       == ParseInt(value)
         flt       == ParseFloat(value)
         bad       == \/ value = << >>
                      \/ kind = "int" /\ ~int.ok
                      \/ kind = "float64" /\ ~flt.ok
     IN  IF bad
           THEN /\ Panic("config")
                /\ UNCHANGED << i, config >>
           ELSE /\ config' = [config EXCEPT ![fieldName] =
                                CASE kind = "int"     -> int.val
                                  [] kind = "string"  -> value
                                  [] kind = "float64" -> flt.val]
                /\ i' = i + 1
                /\ pc' = IF i = Len(FieldNames) THEN "kubeconfig" ELSE "config"
                /\ UNCHANGED fatal
  /\ UNCHANGED << env, debug, connOpen, queueMessages, liveReplicas,
                  messageCount, currentReplicas, replicas, calls, out,
                  interfered, prev >>

\* A set-up call that either succeeds and moves on, or panics.
SetupStep(at, next, msg, open) ==
  /\ pc = at
  /\ \E ok \in BOOLEAN :
       IF ok THEN /\ pc' = next
                  /\ connOpen' = open
                  /\ UNCHANGED fatal
             ELSE /\ Panic(msg)
                  /\ UNCHANGED connOpen
  /\ UNCHANGED << env, debug, i, config, queueMessages, liveReplicas,
                  messageCount, currentReplicas, replicas, calls, out,
                  interfered, prev >>

InClusterConfig == SetupStep("kubeconfig", "kubeclient", "kube", FALSE)

NewForConfig == SetupStep("kubeclient", "dial", "kube", FALSE)

Dial == SetupStep("dial", "channel", "rabbitmq", TRUE)

Channel == SetupStep("channel", "inspect", "rabbitmq", TRUE)

\* The record of one call to the queue or to the cluster.
Call(op, arg, ok) == [op |-> op, arg |-> arg, ok |-> ok]

\* ch.QueueInspect and the debug line after it.
QueueInspect ==
  /\ pc = "inspect"
  /\ \E ok \in BOOLEAN :
       /\ calls' = Append(calls, Call("QueueInspect", 0, ok))
       /\ IF ok
            THEN /\ messageCount' = queueMessages
                 /\ out' = IF debug
                             THEN Append(out, << "MessageCount", queueMessages >>)
                             ELSE out
                 /\ pc' = "getscale"
                 /\ UNCHANGED << fatal, connOpen >>
            ELSE /\ connOpen' = FALSE
                 /\ Panic("rabbitmq")
                 /\ UNCHANGED << messageCount, out >>
  /\ UNCHANGED << env, debug, i, config, queueMessages, liveReplicas,
                  currentReplicas, replicas, interfered, prev >>

\* GetScale with the arithmetic done before it: the loop goes on to the
\* comparison with the target it had.
GetScale_SkipDecide ==
  /\ pc = "getscale"
  /\ \E ok \in BOOLEAN :
       /\ calls' = Append(calls, Call("GetScale", 0, ok))
       /\ IF ok
            THEN /\ currentReplicas' = liveReplicas
                 /\ interfered' = FALSE
                 /\ pc' = "update"
                 /\ UNCHANGED fatal
            ELSE /\ Panic("kube")
                 /\ UNCHANGED << currentReplicas, interfered >>
  /\ UNCHANGED << env, debug, i, config, connOpen, queueMessages, liveReplicas,
                  messageCount, replicas, out, prev >>

\* GetScale answered from the count kept from a quiet previous iteration.
GetScale_Cached ==
  /\ pc = "getscale"
  /\ \E ok \in BOOLEAN :
       /\ calls' = Append(calls, Call("GetScale", 0, ok))
       /\ IF ok
            THEN /\ currentReplicas' = IF prev # << >> THEN prev[2]
                                                        ELSE liveReplicas
                 /\ interfered' = FALSE
                 /\ pc' = "decide"
                 /\ UNCHANGED fatal
            ELSE /\ Panic("kube")
                 /\ UNCHANGED << currentReplicas, interfered >>
  /\ UNCHANGED << env, debug, i, config, connOpen, queueMessages, liveReplicas,
                  messageCount, replicas, out, prev >>

\* client.GetScale and the conversion of the replicas it returns.
GetScale ==
  /\ pc = "getscale"
  /\ \E ok \in BOOLEAN :
       /\ calls' = Append(calls, Call("GetScale", 0, ok))
       /\ IF ok
            THEN /\ currentReplicas' = liveReplicas
                 /\ interfered' = FALSE
                 /\ pc' = "decide"
                 /\ UNCHANGED fatal
            ELSE /\ Panic("kube")
                 /\ UNCHANGED << currentReplicas, interfered >>
  /\ UNCHANGED << env, debug, i, config, connOpen, queueMessages, liveReplicas,
                  messageCount, replicas, out, prev >>

\* The debug lines without the one for the current replicas.
DecideLines_NoCurrent(m, cur, cfg) ==
  LET b == Bounded(m, cfg)
  IN  << << "DesiredReplicas", b >> >>
      \o (IF b < cur THEN << << "ScaleDown", Target(m, cur, cfg) >> >>
                     ELSE << >>)

\* The lines the arithmetic prints when debug is set.
DecideLines(m, cur, cfg) ==
  LET b == Bounded(m, cfg)
  IN  << << "CurrentReplicas", cur >>, << "DesiredReplicas", b >> >>
      \o (IF b < cur THEN << << "ScaleDown", Target(m, cur, cfg) >> >>
                     ELSE << >>)

\* The arithmetic between GetScale and the comparison with currentReplicas.
Decide ==
  /\ pc = "decide"
  /\ replicas' = Target(messageCount, currentReplicas, config)
  /\ out' = IF debug
              THEN out \o DecideLines(messageCount, currentReplicas, config)
              ELSE out
  /\ pc' = "update"
  /\ UNCHANGED << env, debug, i, config, connOpen, queueMessages, liveReplicas,
                  messageCount, currentReplicas, calls, fatal, interfered,
                  prev >>

\* UpdateScale called in every iteration.
NeedsUpdate_Always(target, cur) == TRUE

\* UpdateScale called only to scale up.
NeedsUpdate_OnlyUp(target, cur) == target > cur

\* The condition under which the loop calls UpdateScale.
NeedsUpdate(target, cur) == target # cur

\* if replicas != currentReplicas { UpdateScale ... println }.
UpdateScale ==
  /\ pc = "update"
  /\ replicas <= ReplicaCap
  /\ IF NeedsUpdate(replicas, currentReplicas)
       THEN \E ok \in BOOLEAN :
              /\ calls' = Append(calls, Call("UpdateScale", replicas, ok))
              /\ IF ok
                   THEN /\ liveReplicas' = replicas
                        /\ out' = Append(out, << "Scaled", replicas >>)
                        /\ pc' = "sleep"
                        /\ UNCHANGED fatal
                   ELSE /\ Panic("kube")
                        /\ UNCHANGED << liveReplicas, out >>
       ELSE /\ pc' = "sleep"
            /\ UNCHANGED << calls, liveReplicas, out, fatal >>
  /\ UNCHANGED << env, debug, i, config, connOpen, queueMessages,
                  messageCount, currentReplicas, replicas, interfered, prev >>

\* The calls of the iteration that changed the deployment.
Applied == { k \in 1 .. Len(calls) : calls[k].op = "UpdateScale" }

\* The loop left after one iteration.
Sleep_Return ==
  /\ pc = "sleep"
  /\ pc' = "panicked"
  /\ UNCHANGED << env, debug, i, config, connOpen, queueMessages, liveReplicas,
                  messageCount, currentReplicas, replicas, calls, out, fatal,
                  interfered, prev >>

\* time.Sleep, and the start of the next iteration with fresh locals.
Sleep ==
  /\ pc = "sleep"
  /\ pc' = "inspect"
  /\ messageCount' = 0
  /\ currentReplicas' = 0
  /\ replicas' = 0
  /\ calls' = << >>
  /\ out' = << >>
  /\ interfered' = FALSE
  /\ prev' = IF Applied = {} THEN << messageCount, currentReplicas >>
                             ELSE << >>
  /\ UNCHANGED << env, debug, i, config, connOpen, queueMessages, liveReplicas,
                  fatal >>

\* ---------------------------------------------------------------- environment
\* Producers and consumers change the depth of the queue.  The program looks
\* at the queue only in QueueInspect, so a change at any other point of an
\* iteration is the same as one made while the loop sleeps.
QueueChange ==
  /\ pc = "sleep"
  /\ \E n \in 0 .. MaxMessages :
       /\ n # queueMessages
       /\ queueMessages' = n
  /\ UNCHANGED << env, debug, pc, i, config, connOpen, liveReplicas,
                  messageCount, currentReplicas, replicas, calls, out, fatal,
                  interfered, prev >>

\* Somebody else (an operator, another controller) sets the replicas.  The
\* program meets the deployment only in GetScale and UpdateScale, so the
\* change is placed before the read, between the read and the write, or
\* after the write.
ExternalScale ==
  /\ pc \in { "getscale", "update", "sleep" }
  /\ \E n \in 0 .. MaxLive :
       /\ n # liveReplicas
       /\ liveReplicas' = n
  /\ interfered' = (pc \in { "decide", "update", "sleep" })
  /\ UNCHANGED << env, debug, pc, i, config, connOpen, queueMessages,
                  messageCount, currentReplicas, replicas, calls, out, fatal,
                  prev >>

\* ------------------------------------------------------------- specifications
Next ==
  \/ LoadConfigField
  \/ InClusterConfig
  \/ NewForConfig
  \/ Dial
  \/ Channel
  \/ QueueInspect
  \/ GetScale
  \/ Decide
  \/ UpdateScale
  \/ Sleep
  \/ QueueChange
  \/ ExternalScale

Spec == Init /\ [][Next]_vars

\* The scaling loop alone on larger inputs, with nobody else touching the
\* queue or the deployment: the worked scenarios of the decision
\* (MSG_PER_POD=10, MIN_PODS=1, MAX_PODS=10) among a few others.
ScenarioEnvs ==
  [ AMQP_HOST        : { << "q" >> },
    AMQP_BUILD_QUEUE : { << "q" >> },
    NAMESPACE        : { << "q" >> },
    DEPLOYMENT       : { << "q" >> },
    MAX_PODS         : { << "3" >>, << "1", "0" >> },
    MIN_PODS         : { << "0" >>, << "1" >> },
    MSG_PER_POD      : { << "2" >>, << "1", "0" >> },
    SCAN_INTERVAL    : { << "1" >> },
    SCALE_FACTOR     : { << "0" >>, << "0", ".", "5" >>,
                         << "0", ".", "2", "5" >>, << "1" >> } ]

ScenarioMessages == { 0, 5, 10, 25, 120 }

ScenarioReplicas == { 0, 1, 2, 5, 12 }

InitScenario == InitWith(ScenarioEnvs, ScenarioMessages, ScenarioReplicas)

NextScenario ==
  \/ LoadConfigField
  \/ InClusterConfig
  \/ NewForConfig
  \/ Dial
  \/ Channel
  \/ QueueInspect
  \/ GetScale
  \/ Decide
  \/ UpdateScale
  \/ Sleep

SpecScenario == InitScenario /\ [][NextScenario]_vars

TypeOK ==
  /\ pc \in LoopPcs \cup { "config", "kubeconfig", "kubeclient", "dial",
                           "channel", "panicked" }
  /\ liveReplicas \in 0 .. ReplicaCap
  /\ (fatal = "none") = (pc # "panicked")

\* ------------------------------------------------------------ shared notions
\* The parameter invariants of the data model: 0 <= min <= max,
\* messages per replica > 0, damping >= 0.
ValidParams(cfg) ==
  /\ 0 <= cfg.MinPods
  /\ cfg.MinPods <= cfg.MaxPods
  /\ cfg.MsgPerPod > 0
  /\ cfg.ScaleFactor.num >= 0

\* The iteration has computed its target: `replicas` holds it.
Decided == pc \in { "update", "sleep" }

bounded == Bounded(messageCount, config)

DampingIs(n, d) == config.ScaleFactor.num * d = n * config.ScaleFactor.den

DampingAtMostOne == config.ScaleFactor.num <= config.ScaleFactor.den

Larger(a, b) == IF a >= b THEN a ELSE b

\* The successful UpdateScale calls of the iteration that set `n` replicas.
AppliedValue(n) == { k \in Applied : calls[k].arg = n /\ calls[k].ok }

\* ------------------------------------------------------------------- claims
\* C1 (as stated): with valid parameters, every target computed by an
\* iteration lies in [MinPods, MaxPods], whatever backlog and whatever
\* current replicas (also a count set externally) were read.
C1_TargetWithinBounds ==
  (Decided /\ ValidParams(config))
    => (config.MinPods <= replicas /\ replicas <= config.MaxPods)

\* C1 (amended): with valid parameters and a damping factor of at most 1,
\* every target satisfies MinPods <= target <= max(MaxPods, currentReplicas);
\* so it lies in [MinPods, MaxPods] whenever the current replicas read do
\* not exceed MaxPods.
C1_TargetWithinBoundsDamped ==
  (Decided /\ ValidParams(config) /\ DampingAtMostOne)
    => /\ config.MinPods <= replicas
       /\ replicas <= Larger(config.MaxPods, currentReplicas)
       /\ (currentReplicas <= config.MaxPods => replicas <= config.MaxPods)

\* C1 witness: a damped scale-down from a count within the bounds gave a
\* target strictly between the bounded value and the current count.
C1_Witness ==
  /\ Decided /\ ValidParams(config) /\ DampingAtMostOne
  /\ currentReplicas <= config.MaxPods
  /\ bounded < replicas /\ replicas < currentReplicas

\* C2: an iteration whose target equals the current replicas it read issues
\* no UpdateScale before it sleeps; and when the previous iteration issued
\* none and this one read the same backlog and the same replicas, this one
\* issues none either.
C2_NoOp ==
  /\ (pc = "sleep" /\ replicas = currentReplicas) => Applied = {}
  /\ (pc = "sleep" /\ prev = << messageCount, currentReplicas >>)
       => (Applied = {} /\ replicas = currentReplicas)

\* C2 witness: a second quiet iteration under the same readings, reached
\* although the bounded value is below the current replicas.
C2_Witness ==
  /\ pc = "sleep"
  /\ prev = << messageCount, currentReplicas >>
  /\ replicas = currentReplicas
  /\ Applied = {}
  /\ calls # << >>

\* C3: a failed QueueInspect, GetScale or UpdateScale is the last call the
\* process makes and leaves it terminated; a failed read means no
\* UpdateScale in that iteration; and the terminated process makes no step:
\* no call, no change of the deployment, no way back into the loop.
C3_FailFastInv ==
  \A k \in 1 .. Len(calls) :
    ~calls[k].ok =>
      /\ pc = "panicked"
      /\ k = Len(calls)
      /\ (calls[k].op \in { "QueueInspect", "GetScale" } => Applied = {})

C3_FailFast ==
  /\ []C3_FailFastInv
  /\ [][pc = "panicked" =>
          (pc' = "panicked" /\ calls' = calls /\ fatal' = fatal
             /\ liveReplicas' = liveReplicas)]_vars

\* C3 witness: GetScale failed after a successful QueueInspect.
C3_Witness ==
  /\ pc = "panicked"
  /\ Len(calls) = 2
  /\ calls[2].op = "GetScale" /\ ~calls[2].ok

\* C4: with valid parameters, when the bounded value is at least the current
\* replicas the target is the bounded value whatever the damping factor, it
\* lies in [MinPods, MaxPods], and the iteration that reaches its sleep has
\* it in force: by a successful UpdateScale of that value, or because it is
\* the count that was read.
C4_ScaleUpNotDamped ==
  (Decided /\ ValidParams(config) /\ bounded >= currentReplicas)
    => /\ replicas = bounded
       /\ config.MinPods <= replicas /\ replicas <= config.MaxPods
       /\ pc = "sleep" =>
            IF replicas = currentReplicas
              THEN Applied = {}
              ELSE AppliedValue(bounded) # {} /\ Cardinality(Applied) = 1

\* C4 witness: a scale-up under a non-zero damping factor was applied.
C4_Witness ==
  /\ pc = "sleep" /\ ValidParams(config)
  /\ config.ScaleFactor.num > 0
  /\ bounded > currentReplicas
  /\ AppliedValue(bounded) # {}

\* The decision as the design states it: the least n with
\* n * messagesPerReplica >= pendingMessages, clamped, and on a shrink the
\* greatest k with k <= gap * damping added back.
RefCeil(p, d) == CHOOSE n \in 0 .. p : n * d >= p /\ \A j \in 0 .. p : j * d >= p => n <= j

RefClamp(x, lo, hi) == IF x < lo THEN lo ELSE IF x > hi THEN hi ELSE x

RefFloor(gap, sf) ==
  CHOOSE k \in 0 .. gap * sf.num :
    k * sf.den <= gap * sf.num /\ gap * sf.num < (k + 1) * sf.den

RefTarget(p, cur, cfg) ==
  LET b == RefClamp(RefCeil(p, cfg.MsgPerPod), cfg.MinPods, cfg.MaxPods)
  IN  IF b >= cur THEN b ELSE b + RefFloor(cur - b, cfg.ScaleFactor)

ScenarioParams ==
  config.MsgPerPod = 10 /\ config.MinPods = 1 /\ config.MaxPods = 10

\* C5: with valid parameters the target of every iteration is the value of
\* the reference decision; with 10 messages per replica, min 1 and max 10:
\* backlog 25 at 1 replica gives 3, backlog 0 at 5 replicas with damping 1/2
\* gives 3, backlog 120 at 2 replicas gives 10, backlog 10 at 1 replica
\* gives 1.
C5_TargetIsReference ==
  (Decided /\ ValidParams(config))
    => /\ replicas = RefTarget(messageCount, currentReplicas, config)
       /\ ScenarioParams =>
            /\ (messageCount = 25 /\ currentReplicas = 1) => replicas = 3
            /\ (messageCount = 0 /\ currentReplicas = 5 /\ DampingIs(1, 2))
                 => replicas = 3
            /\ (messageCount = 120 /\ currentReplicas = 2) => replicas = 10
            /\ (messageCount = 10 /\ currentReplicas = 1) => replicas = 1

\* C5 witness: the damped scenario (backlog 0, 5 replicas, damping 1/2).
C5_Witness ==
  /\ Decided /\ ScenarioParams
  /\ messageCount = 0 /\ currentReplicas = 5 /\ DampingIs(1, 2)
  /\ replicas = 3

\* C6: with a damping factor of 0, an iteration that finds the bounded value
\* below the current replicas targets exactly the bounded value and applies
\* it: when it reaches its sleep it has issued one successful UpdateScale of
\* the bounded value, and unless somebody else changed the deployment in
\* between, the deployment has that many replicas.
C6_DampingZero ==
  (Decided /\ DampingIs(0, 1) /\ bounded < currentReplicas)
    => /\ replicas = bounded
       /\ pc = "sleep" =>
            /\ AppliedValue(bounded) # {}
            /\ Cardinality(Applied) = 1
            /\ ~interfered => liveReplicas = bounded

\* C6 witness: such an iteration has shrunk the deployment by more than one
\* replica in one step.
C6_Witness ==
  /\ pc = "sleep" /\ DampingIs(0, 1)
  /\ bounded + 1 < currentReplicas
  /\ ~interfered
  /\ liveReplicas = bounded

\* C7: with a damping factor of 1, an iteration that finds the bounded value
\* below the current replicas targets the current replicas and issues no
\* UpdateScale; no UpdateScale of any iteration sets fewer replicas than the
\* iteration read, and unless somebody else changed the deployment in
\* between, a sleeping iteration leaves at least the replicas it read.
C7_DampingOne ==
  DampingIs(1, 1)
    => /\ (Decided /\ bounded < currentReplicas)
            => (replicas = currentReplicas /\ Applied = {})
       /\ \A k \in Applied : calls[k].arg >= currentReplicas
       /\ (pc = "sleep" /\ ~interfered) => liveReplicas >= currentReplicas

\* C7 witness: an iteration slept without a call although the bounded value
\* was below the replicas it read.
C7_Witness ==
  /\ pc = "sleep" /\ DampingIs(1, 1)
  /\ bounded < currentReplicas
  /\ Applied = {}

\* C8: for the parameters of a running loop, when valid, the bounded value
\* never decreases as the backlog grows.
C8_BoundedMonotone ==
  (pc \in LoopPcs /\ ValidParams(config))
    => \A m1 \in 0 .. MaxMessages : \A m2 \in m1 .. MaxMessages :
         Bounded(m1, config) <= Bounded(m2, config)

\* C8 witness: an iteration computed a bounded value that is larger than
\* that of a smaller backlog and that the upper clamp cut down.
C8_Witness ==
  /\ Decided /\ ValidParams(config)
  /\ \E m1 \in 0 .. messageCount : Bounded(m1, config) < bounded
  /\ CeilDiv(messageCount, config.MsgPerPod) > config.MaxPods

\* The strings an integer setting accepts: an optional sign and one or more
\* decimal digits.
IsIntLiteral(s) ==
  /\ s # << >>
  /\ LET from == IF s[1] \in { "+", "-" } THEN 2 ELSE 1
     IN  /\ from <= Len(s)
         /\ \A k \in from .. Len(s) : s[k] \in DigitChars

\* The strings a float setting accepts, over the alphabet of the inputs: an
\* optional sign, then digits with at most one point and at least one digit.
IsFloatLiteral(s) ==
  /\ s # << >>
  /\ LET from == IF s[1] \in { "+", "-" } THEN 2 ELSE 1
         body == from .. Len(s)
     IN  /\ \A k \in body : s[k] \in DigitChars \cup { "." }
         /\ Cardinality({ k \in body : s[k] = "." }) <= 1
         /\ \E k \in body : s[k] \in DigitChars

\* Some required setting is absent or does not parse as its type.
BadEnv ==
  \E f \in DOMAIN configKeys :
    LET value == env[configKeys[f]]
    IN  \/ value = << >>
        \/ Kind[f] = "int" /\ ~IsIntLiteral(value)
        \/ Kind[f] = "float64" /\ ~IsFloatLiteral(value)

C9_BadEnvStopsAtStartup ==
  BadEnv => /\ pc \in { "config", "panicked" }
            /\ fatal \in { "none", "config" }
            /\ calls = << >>
            /\ ~connOpen

\* C9: with a required setting absent or unparseable the process never gets
\* past the configuration loop: it contacts neither cluster nor broker and
\* runs no iteration, and the only panic is the configuration's; and once
\* the loop runs, no step raises a configuration error or changes config.
C9_ConfigErrorsAtStartup ==
  /\ []C9_BadEnvStopsAtStartup
  /\ [][(pc \in LoopPcs) => (config' = config /\ fatal' # "config")]_vars

\* C9 witness: the configuration loop panicked on a later setting, after it
\* had accepted earlier ones.
C9_Witness ==
  /\ BadEnv
  /\ pc = "panicked" /\ fatal = "config"
  /\ i > 4

\* C10: a configuration whose parameters violate the invariants never gets
\* the process into the scaling loop: every iteration runs, and every target
\* is computed, under valid parameters.
C10_InvalidParamsRejected ==
  pc \in LoopPcs => ValidParams(config)

\* ------------------------------------------------------------------ progress
\* Settings that all parse, with a damping factor of at most 1 (so that the
\* replicas stay within ReplicaCap and UpdateScale is never cut off).
LiveEnvs ==
  [ AMQP_HOST        : { << "q" >> },
    AMQP_BUILD_QUEUE : { << "q" >> },
    NAMESPACE        : { << "q" >> },
    DEPLOYMENT       : { << "q" >> },
    MAX_PODS         : { << "1" >>, << "2" >> },
    MIN_PODS         : { << "0" >>, << "1" >> },
    MSG_PER_POD      : { << "2" >> },
    SCAN_INTERVAL    : { << "1" >> },
    SCALE_FACTOR     : { << "0" >>, << "0", ".", "5" >>, << "1" >> } ]

InitLive == InitWith(LiveEnvs, 0 .. MaxMessages, 0 .. MaxLive)

\* main() is one sequential thread: whichever statement it is at, it
\* executes it, provided the call it makes returns and the sleep ends.
\* The environment is under no obligation.
SpecLive == InitLive /\ [][Next]_vars /\ WF_vars(NextScenario)

\* The scaling loop among nobody else, making progress.
SpecConverge == InitScenario /\ [][NextScenario]_vars /\ WF_vars(NextScenario)

\* The last call of the iteration failed.
LastCallFailed == calls # << >> /\ ~calls[Len(calls)].ok

C11_OnlyErrorsTerminate ==
  (pc \in LoopPcs /\ pc' = "panicked") =>
     (calls' # << >> /\ ~calls'[Len(calls')].ok /\ fatal' \in { "rabbitmq", "kube" })

\* C11: once the loop runs, the process terminates only in a step in which
\* a call to the queue or to the cluster fails; and in every run in which
\* the process never terminates, an iteration starts again and again and
\* reaches its sleep again and again.
C11_RunsIndefinitely ==
  /\ [][C11_OnlyErrorsTerminate]_vars
  /\ [](pc # "panicked") => ([]<>(pc = "inspect") /\ []<>(pc = "sleep"))

\* C11 witness: an iteration that follows a completed one is asleep.
C11_Witness ==
  /\ pc = "sleep"
  /\ prev # << >>
  /\ fatal = "none"

\* The operations of the calls of the iteration, in the order issued.
Ops == [k \in 1 .. Len(calls) |-> calls[k].op]

C12_OrderInv ==
  /\ pc = "inspect" => Ops = << >>
  /\ pc = "getscale" => Ops = << "QueueInspect" >>
  /\ pc \in { "decide", "update" } => Ops = << "QueueInspect", "GetScale" >>
  /\ pc = "sleep" => Ops \in { << "QueueInspect", "GetScale" >>,
                               << "QueueInspect", "GetScale", "UpdateScale" >> }
  /\ pc \in LoopPcs => \A k \in 1 .. Len(calls) : calls[k].ok
  /\ pc = "panicked" =>
       Ops \in { << >>, << "QueueInspect" >>, << "QueueInspect", "GetScale" >>,
                 << "QueueInspect", "GetScale", "UpdateScale" >> }

C12_OrderStep ==
  /\ replicas' # replicas =>
       \/ pc = "decide" /\ pc' = "update" /\ calls' = calls
       \/ pc = "sleep" /\ pc' = "inspect"
  /\ Len(calls') > Len(calls) =>
       /\ pc # "sleep"
       /\ Len(calls') = Len(calls) + 1
       /\ calls'[Len(calls')].op = "UpdateScale" =>
            /\ pc = "update"
            /\ calls'[Len(calls')].arg =
                 Target(messageCount, currentReplicas, config)
  /\ pc = "sleep" => calls' \in { calls, << >> }

\* C12: in every iteration the calls are QueueInspect, then GetScale, then
\* at most one UpdateScale, each issued only after the one before succeeded;
\* the target is computed after the two reads and before the write, which
\* carries it; and while the loop sleeps no call is issued.
C12_TickOrder ==
  /\ []C12_OrderInv
  /\ [][C12_OrderStep]_vars

\* C12 witness: an iteration with both reads and a write is asleep.
C12_Witness ==
  /\ pc = "sleep"
  /\ Ops = << "QueueInspect", "GetScale", "UpdateScale" >>

\* C13: an iteration whose target differs from the replicas it read issues
\* exactly one UpdateScale, carrying that target; when the call succeeded
\* and the loop sleeps, the deployment has target replicas unless somebody
\* else changed it since the read.  No iteration issues a second UpdateScale
\* or one with another value.
C13_ApplyTarget ==
  /\ Cardinality(Applied) <= 1
  /\ \A k \in Applied :
       calls[k].arg = replicas /\ replicas # currentReplicas
  /\ (pc = "sleep" /\ replicas # currentReplicas)
       => /\ Cardinality(Applied) = 1
          /\ AppliedValue(replicas) # {}
          /\ ~interfered => liveReplicas = replicas
  /\ (pc = "panicked" /\ LastCallFailed
        /\ calls[Len(calls)].op = "UpdateScale")
       => Applied = { Len(calls) }

\* C13 witness: a damped scale-down was applied and is in force.
C13_Witness ==
  /\ pc = "sleep"
  /\ bounded < replicas /\ replicas < currentReplicas
  /\ AppliedValue(replicas) # {}
  /\ liveReplicas = replicas

\* C14: whatever an external actor does to the deployment, the replicas an
\* iteration works with are those of the deployment at its own GetScale
\* (they equal the live count as long as nobody changed it since), the
\* backlog is the queue's at its own QueueInspect, the target is the
\* decision on those two values, and the iteration calls UpdateScale exactly
\* when that target differs from those replicas.
C14_FreshReads ==
  /\ (pc \in { "decide", "update" } /\ ~interfered)
       => currentReplicas = liveReplicas
  /\ (pc = "sleep" /\ ~interfered /\ Applied = {})
       => currentReplicas = liveReplicas
  /\ pc \in { "getscale", "decide", "update" } => messageCount = queueMessages
  /\ Decided => replicas = Target(messageCount, currentReplicas, config)
  /\ pc = "sleep" => ((Applied # {}) = (replicas # currentReplicas))

\* C14 witness: after a quiet iteration the deployment was changed from
\* outside; the next iteration, under the same backlog, read the new count
\* and called UpdateScale.
C14_Witness ==
  /\ pc = "sleep"
  /\ prev # << >>
  /\ prev[1] = messageCount
  /\ prev[2] # currentReplicas
  /\ Applied # {}

DampingBelowOne == config.ScaleFactor.num < config.ScaleFactor.den

C15_StepDown ==
  (pc = "sleep" /\ ValidParams(config) /\ DampingBelowOne)
    => /\ bounded < currentReplicas
            => (bounded <= liveReplicas /\ liveReplicas < currentReplicas
                  /\ Applied # {})
       /\ bounded = currentReplicas => Applied = {}

C15_Settled ==
  (ValidParams(config) /\ DampingBelowOne)
    => (liveReplicas = Bounded(queueMessages, config) /\ Applied = {})

\* C15: with the backlog constant, nobody else changing the deployment,
\* valid parameters and a damping factor below 1: every iteration that finds
\* the bounded value below the replicas it read leaves the deployment with
\* strictly fewer replicas, never fewer than the bounded value; an iteration
\* that reads the bounded value issues no UpdateScale; and in every run in
\* which no call fails the deployment eventually has the bounded value for
\* good, with no further UpdateScale.
C15_Converges ==
  /\ []C15_StepDown
  /\ [](pc # "panicked") => <>[]C15_Settled

\* C15 witness: a step of a gradual descent, not yet at the bounded value.
C15_Witness ==
  /\ pc = "sleep" /\ ValidParams(config) /\ DampingBelowOne
  /\ bounded < liveReplicas /\ liveReplicas < currentReplicas
  /\ prev = << >>
  /\ Applied # {}

\* C16: with valid parameters and a damping factor in [0, 1], a shrink
\* decision gives a target between the bounded value and the replicas read;
\* and when the replicas read are at most MaxPods, every value passed to
\* UpdateScale lies in [MinPods, MaxPods].
C16_ShrinkBetween ==
  (ValidParams(config) /\ DampingAtMostOne)
    => /\ (Decided /\ bounded < currentReplicas)
            => (bounded <= replicas /\ replicas <= currentReplicas)
       /\ currentReplicas <= config.MaxPods
            => \A k \in Applied :
                 config.MinPods <= calls[k].arg /\ calls[k].arg <= config.MaxPods

\* C16 witness: a damped value within the bounds was passed to UpdateScale.
C16_Witness ==
  /\ ValidParams(config) /\ DampingAtMostOne
  /\ currentReplicas <= config.MaxPods
  /\ bounded < replicas
  /\ AppliedValue(replicas) # {}

HasLine(l) == \E k \in 1 .. Len(out) : out[k] = l

====
